---- MODULE Spec2Model ----
(***************************************************************************)
(* hidlights: the report model builder (DeviceHandle::reports) and the     *)
(* bit-level codec (DeviceHandle::write_report) of src/src/lib.rs, and the *)
(* session handling of src/examples/gui.rs.                                *)
(*                                                                         *)
(* Option<T> is a sequence of length 0 (None) or 1 (Some).  Result<T> is   *)
(* <<"Ok", v>>, <<"Err", e>> or, for a Rust panic, <<"Panic", why>>.       *)
(* f32 control values are fixed-point numerators over One (v = n / One).   *)
(***************************************************************************)
EXTENDS Integers, Sequences, FiniteSets

VARIABLES open_device, reports, sent, last

vars == <<open_device, reports, sent, last>>

None == <<>>
Some(x) == <<x>>
Ok(x) == <<"Ok", x>>
Err(e) == <<"Err", e>>
Panic(why) == <<"Panic", why>>
IsOk(r) == r[1] = "Ok"

Min(a, b) == IF a <= b THEN a ELSE b

RECURSIVE Pow2(_)
Pow2(k) == IF k = 0 THEN 1 ELSE 2 * Pow2(k - 1)

\* f32 1.0 in fixed point: a control value v stands for v / One.
One == 1000

(***************************************************************************)
(* Bounds of the checked inputs.                                           *)
(***************************************************************************)
\* Longest usage list of an Array field (positions 0..MaxUsages-1).
MaxUsages == 11
\* Widest Array field, in bits.
MaxSpan == 6
\* Widest control handed to the codec, in bits.
MaxWidth == 8
\* Highest first bit of a control handed to the codec.
MaxStart == 8

(***************************************************************************)
(* Usages.  hut::Usage::new_from_page_and_id fails for a page it does not  *)
(* know ("Unresolved"); otherwise the usage belongs to a page of the table.*)
(***************************************************************************)
StandardPages == {"GenericDesktop", "LED", "Button"}
VendorPages == {"ReservedUsagePage", "VendorDefinedPage"}
UsagePages == StandardPages \cup VendorPages \cup {"Unresolved"}

is_vendor_usage(usage) ==
    IF usage = "Unresolved" THEN TRUE
    ELSE IF usage \in StandardPages THEN FALSE
    ELSE TRUE

\* string_index: the label the device returns for the field's string index,
\* None when the field has no index or the lookup fails.
indexed_name(string_index, usage) ==
    IF string_index # None THEN string_index
    ELSE IF usage # "Unresolved" THEN Some(usage)
    ELSE None

unwrap_or_else_Unk(opt) == IF opt # None THEN opt[1] ELSE "Unk"

\* char::from_digit(i, 10): Some(digit) for i < 10, None otherwise.
from_digit(i) == IF i < 10 THEN Some(i) ELSE None

Len_bits(bits) == IF bits.end >= bits.start THEN bits.end - bits.start ELSE 0

(***************************************************************************)
(* DeviceHandle::reports, the body of the field loop.                      *)
(***************************************************************************)
\* Faulty variant: no Toggle for a one-bit range.
KindOfAlwaysUnsigned(bits, lo, hi) == [tag |-> "Unsigned", lo |-> lo, hi |-> hi]

\* if bits.len() == 1 { Toggle } else { Unsigned(min..=max) }
KindOf(bits, lo, hi) ==
    IF Len_bits(bits) = 1 THEN [tag |-> "Toggle", lo |-> 0, hi |-> 0]
    ELSE [tag |-> "Unsigned", lo |-> lo, hi |-> hi]

\* Faulty variant: a control that does not start at 0.0.
VariableOutputStale(f) ==
    [kind |-> KindOf(f.bits, f.logical_minimum, f.logical_maximum),
     real_value |-> One,
     bits |-> f.bits,
     name |-> <<unwrap_or_else_Unk(indexed_name(f.string_index, f.usage))>>]

\* The DeviceOutput pushed for a Variable field.
VariableOutput(f) ==
    [kind |-> KindOf(f.bits, f.logical_minimum, f.logical_maximum),
     real_value |-> 0,
     bits |-> f.bits,
     name |-> <<unwrap_or_else_Unk(indexed_name(f.string_index, f.usage))>>]

\* The controls a Variable field adds.
VariableControls(f) ==
    IF is_vendor_usage(f.usage) \/ ~f.variable THEN <<>>
    ELSE <<VariableOutput(f)>>

\* Faulty variant: slots counted from bit 0 instead of the field's start.
SlotBitsNoOffset(f, i, size) == [start |-> i * size, end |-> i * size + size]

\* start_bit..(start_bit + size)
SlotBits(f, i, size) ==
    LET start_bit == f.bits.start + i * size
    IN  [start |-> start_bit, end |-> start_bit + size]

\* designators.zip(usages).zip(strings): as long as the shortest of the three.
ZipLen(f) == Min(Min(f.designator_len, Len(f.usage_list)), Len(f.string_list))

\* Positions i..ZipLen-1 of an Array field: Ok(controls) or a panic.
RECURSIVE ArraySlots(_, _, _)
ArraySlots(f, i, size) ==
    IF i >= ZipLen(f) THEN Ok(<<>>)
    ELSE IF is_vendor_usage(f.usage_list[i + 1]) THEN ArraySlots(f, i + 1, size)
    ELSE IF from_digit(i) = None THEN Panic("from_digit unwrap")
    ELSE LET bits == SlotBits(f, i, size)
             base == unwrap_or_else_Unk(indexed_name(f.string_list[i + 1],
                                                     f.usage_list[i + 1]))
             out  == [kind |-> KindOf(bits, f.logical_minimum, f.logical_maximum),
                      real_value |-> 0,
                      bits |-> bits,
                      name |-> <<base, from_digit(i)[1]>>]
             rest == ArraySlots(f, i + 1, size)
         IN  IF IsOk(rest) THEN Ok(<<out>> \o rest[2]) ELSE rest

ArrayControls(f) ==
    IF Len(f.usage_list) = 0 THEN Panic("divide by zero")
    ELSE ArraySlots(f, 0, (f.bits.end - f.bits.start) \div Len(f.usage_list))

FieldControls(f) ==
    IF f.type = "Variable" THEN Ok(VariableControls(f))
    ELSE IF f.type = "Array" THEN ArrayControls(f)
    ELSE Ok(<<>>)

RECURSIVE FieldsControls(_)
FieldsControls(fields) ==
    IF fields = <<>> THEN Ok(<<>>)
    ELSE LET head == FieldControls(fields[1])
         IN  IF ~IsOk(head) THEN head
             ELSE LET rest == FieldsControls(Tail(fields))
                  IN  IF IsOk(rest) THEN Ok(head[2] \o rest[2]) ELSE rest

BuildReport(rep) ==
    LET outs == FieldsControls(rep.fields)
    IN  IF ~IsOk(outs) THEN outs
        ELSE Ok([id |-> IF rep.report_id = None THEN 0 ELSE rep.report_id[1],
                 size_in_bits |-> rep.size_in_bits,
                 outputs |-> outs[2]])

\* Faulty variant: reports without controls are kept.
KeepReportAlways(report) == TRUE

\* if !report.outputs.is_empty() { result.push(report) }
KeepReport(report) == report.outputs # <<>>

RECURSIVE BuildReports(_)
BuildReports(output_reports) ==
    IF output_reports = <<>> THEN Ok(<<>>)
    ELSE LET head == BuildReport(output_reports[1])
         IN  IF ~IsOk(head) THEN head
             ELSE LET rest == BuildReports(Tail(output_reports))
                  IN  IF ~IsOk(rest) THEN rest
                      ELSE IF KeepReport(head[2]) THEN Ok(<<head[2]>> \o rest[2])
                      ELSE rest

\* dev: [descriptor_read |-> BOOLEAN, parse_ok |-> BOOLEAN, output_reports |-> Seq]
DeviceHandle_reports(dev) ==
    IF ~dev.descriptor_read THEN Err("HidApi")
    ELSE IF ~dev.parse_ok THEN Err("DescriptorError")
    ELSE BuildReports(dev.output_reports)

(***************************************************************************)
(* DeviceHandle::write_report.  The buffer is a sequence of bytes (byte 0  *)
(* of the code is element 1); bit b of the Msb0 view is bit 7 - b % 8 of   *)
(* byte b \div 8.                                                          *)
(***************************************************************************)
div_ceil(a, b) == (a + b - 1) \div b

\* f32 -> i32 cast: truncation toward zero.
TruncDiv(n, d) == IF n >= 0 THEN n \div d ELSE -((-n) \div d)

AsU8(x) == x % 256

\* `value as u32 > 0`: the cast keeps the 32 bits, so only 0 is not above 0.
AsU32_positive(value) == value # 0

\* (value & (1 << src_bit)) != 0 on the two's complement bits of value (the
\* same bits for the i32 and for its u32 cast).  Bit src_bit of value is bit
\* src_bit of value mod 2^30 for src_bit < 30, which covers every range of
\* the checked inputs.
TestBit(value, src_bit) == ((value % Pow2(30)) \div Pow2(src_bit)) % 2 = 1

\* bits.set(index, value) of the Msb0 view; out of range is a panic.
BitSet(buf, index, value) ==
    IF ~IsOk(buf) THEN buf
    ELSE IF index >= 8 * Len(buf[2]) THEN Panic("bit index out of bounds")
    ELSE LET byte == index \div 8 + 1
             mask == Pow2(7 - (index % 8))
             old  == (buf[2][byte] \div mask) % 2
             new  == buf[2][byte] - old * mask + (IF value THEN mask ELSE 0)
         IN  Ok([buf[2] EXCEPT ![byte] = new])

\* Faulty variant: the value is used as given.
ClampNone(v) == v

\* real_value.clamp(0.0, 1.0)
Clamp(v) == IF v < 0 THEN 0 ELSE IF v > One THEN One ELSE v

\* f32::EPSILON lies strictly between 0 and 1 / One.
Enabled(real_value) == real_value > 0

\* Faulty variant: the scaled value rounded to the nearest integer.
ScaledRound(lo, hi, real_value) ==
    lo + TruncDiv(2 * (hi - lo) * real_value + One, 2 * One)

\* x.start() + ((x.end() - x.start()) as f32 * real_value) as i32
Scaled(lo, hi, real_value) == lo + TruncDiv((hi - lo) * real_value, One)

\* for bit in out.bits.clone() { bits.set(bit, enabled) }
RECURSIVE WriteToggle(_, _, _, _)
WriteToggle(buf, bit, end, enabled) ==
    IF bit >= end THEN buf
    ELSE WriteToggle(BitSet(buf, bit, enabled), bit + 1, end, enabled)

\* for (src_bit, dst_bit) in out.bits.clone().enumerate()
RECURSIVE WriteSigned(_, _, _, _)
WriteSigned(buf, bits, src_bit, value) ==
    IF src_bit >= Len_bits(bits) THEN buf
    ELSE WriteSigned(BitSet(buf, bits.start + src_bit, TestBit(value, src_bit)),
                     bits, src_bit + 1, value)

\* for (src_bit, dst_bit) in out.bits.clone().rev().enumerate()
RECURSIVE WriteUnsigned(_, _, _, _)
WriteUnsigned(buf, bits, src_bit, value) ==
    IF src_bit >= Len_bits(bits) THEN buf
    ELSE WriteUnsigned(BitSet(buf, bits.end - 1 - src_bit, TestBit(value, src_bit)),
                       bits, src_bit + 1, value)

\* One iteration of the loop over report.outputs.
WriteOutput(buf, out) ==
    LET real_value == Clamp(out.real_value)
    IN  IF out.kind.tag = "Toggle"
        THEN WriteToggle(buf, out.bits.start, out.bits.end, Enabled(real_value))
        ELSE IF out.kind.tag = "Signed"
        THEN WriteSigned(buf, out.bits, 0, Scaled(out.kind.lo, out.kind.hi, real_value))
        ELSE LET value == Scaled(out.kind.lo, out.kind.hi, real_value)
             IN  IF AsU32_positive(value) THEN WriteUnsigned(buf, out.bits, 0, value) ELSE buf

RECURSIVE WriteOutputs(_, _)
WriteOutputs(buf, outputs) ==
    IF outputs = <<>> THEN buf
    ELSE WriteOutputs(WriteOutput(buf, outputs[1]), Tail(outputs))

\* vec![0u8; size_in_bits.div_ceil(8)]; buffer[0] = report.id as u8
NewBuffer(report) ==
    LET len == div_ceil(report.size_in_bits, 8)
    IN  IF len = 0 THEN Panic("index out of bounds")
        ELSE Ok([i \in 1..len |-> IF i = 1 THEN AsU8(report.id) ELSE 0])

\* The buffer handed to device.write, or the panic on the way.
EncodeReport(report) == WriteOutputs(NewBuffer(report), report.outputs)

(***************************************************************************)
(* Parsed descriptors handed to the builder (the output of                 *)
(* hidparser::parse_report_descriptor).  The fields of a report follow     *)
(* each other in the report's bits and size_in_bits is where the last ends.*)
(***************************************************************************)
Bits(start, end) == [start |-> start, end |-> end]

PaddingField(start, end) == [type |-> "Padding", bits |-> Bits(start, end)]

VariableField(start, end, usage, variable, lg, string_index) ==
    [type |-> "Variable", bits |-> Bits(start, end), usage |-> usage,
     variable |-> variable, logical_minimum |-> lg[1], logical_maximum |-> lg[2],
     string_index |-> string_index]

\* The usage at position i (0-based) of a usage list of the given pattern.
PatternUsage(pattern, i) ==
    IF pattern = "std" THEN "LED"
    ELSE IF pattern = "even" THEN (IF i % 2 = 0 THEN "Button" ELSE "VendorDefinedPage")
    ELSE IF pattern = "odd" THEN (IF i % 2 = 1 THEN "GenericDesktop" ELSE "Unresolved")
    ELSE (IF i % 2 = 0 THEN "ReservedUsagePage" ELSE "Unresolved")

Patterns == {"std", "even", "odd", "none"}

ArrayField(start, end, n, pattern, designator_len, string_len, lg) ==
    [type |-> "Array", bits |-> Bits(start, end),
     usage_list |-> [i \in 1..n |-> PatternUsage(pattern, i - 1)],
     designator_len |-> designator_len,
     string_list |-> [i \in 1..string_len |-> None],
     logical_minimum |-> lg[1], logical_maximum |-> lg[2]]

LogicalRanges == {<<0, 1>>, <<0, 3>>, <<-1, 1>>}

\* Lengths of the designator list and the string list beside n usages.
LenPairs(n) ==
    {<<n, n>>, <<0, n>>, <<n, 0>>, <<n + 1, IF n > 0 THEN n - 1 ELSE 0>>}

ArrayFieldsAt(start) ==
    UNION {{ArrayField(start, start + w, n, pattern, lens[1], lens[2], lg) :
                w \in 1..MaxSpan, pattern \in Patterns,
                lens \in LenPairs(n), lg \in {<<0, 3>>, <<-1, 1>>}} :
           n \in 0..MaxUsages}

FieldsEnd(fields) == IF fields = <<>> THEN 0 ELSE fields[Len(fields)].bits.end

OutputReport(report_id, fields) ==
    [report_id |-> report_id, fields |-> fields, size_in_bits |-> FieldsEnd(fields)]

\* Reports of one Variable field, after padding when it does not start at 0.
VariableReports ==
    {OutputReport(report_id,
        (IF s = 0 THEN <<>> ELSE <<PaddingField(0, s)>>)
        \o <<VariableField(s, s + w, usage, variable, lg, string_index)>>) :
        report_id \in {None, Some(1)}, s \in 0..1, w \in 1..3, usage \in UsagePages,
        variable \in BOOLEAN, lg \in LogicalRanges, string_index \in {None, Some("Dev")}}

\* What precedes the Array field of a report.
LeadingFields ==
    {<<>>,
     <<VariableField(0, 1, "LED", TRUE, <<0, 1>>, None)>>,
     <<VariableField(0, 2, "VendorDefinedPage", TRUE, <<0, 3>>, None)>>,
     <<PaddingField(0, 1), VariableField(1, 3, "Button", TRUE, <<0, 3>>, None)>>}

ArrayReports ==
    UNION {{OutputReport(IF lead = <<>> THEN None ELSE Some(2), lead \o <<a>>) :
                a \in ArrayFieldsAt(FieldsEnd(lead))} :
           lead \in LeadingFields}

VendorOnlyReport ==
    OutputReport(Some(7), <<VariableField(0, 8, "VendorDefinedPage", TRUE, <<0, 255>>, None)>>)

ToggleReport ==
    OutputReport(Some(9), <<VariableField(0, 1, "LED", TRUE, <<0, 1>>, None),
                            PaddingField(1, 8)>>)

Descriptors ==
    {<<m>> : m \in VariableReports \cup ArrayReports}
    \cup {<<VendorOnlyReport, m, ToggleReport>> : m \in VariableReports \cup ArrayReports}
(***************************************************************************)
(* Devices: what open_path, get_report_descriptor and the parser return    *)
(* for a device of the list.                                               *)
(***************************************************************************)
Device(opens, descriptor_read, parse_ok, output_reports) ==
    [opens |-> opens, descriptor_read |-> descriptor_read, parse_ok |-> parse_ok,
     output_reports |-> output_reports]

BuilderDevices ==
    {Device(TRUE, TRUE, TRUE, d) : d \in Descriptors}
    \cup {Device(TRUE, FALSE, TRUE, <<>>), Device(TRUE, TRUE, FALSE, <<>>)}

(***************************************************************************)
(* BuilderSpec: reports() called once on an open handle.                   *)
(*   open_device  the handle; reports  Some(list) once reports() returned  *)
(*   Ok; last  the last call and how it ended.                             *)
(***************************************************************************)
BuilderInit ==
    /\ open_device \in {Some(d) : d \in BuilderDevices}
    /\ reports = None
    /\ sent = None
    /\ last = <<"open", "Ok">>

CallReports ==
    /\ last[1] = "open"
    /\ LET r == DeviceHandle_reports(open_device[1])
       IN  /\ reports' = IF IsOk(r) THEN Some(r[2]) ELSE None
           /\ last' = <<"reports", r[1]>>
    /\ UNCHANGED <<open_device, sent>>

BuilderNext == CallReports

BuilderSpec == BuilderInit /\ [][BuilderNext]_vars
(***************************************************************************)
(* CodecSpec: write_report called once on a Report.  write_report is a     *)
(* function of the Report alone, so the Reports are drawn from every kind  *)
(* (Signed included), range, position and value within the bounds.         *)
(***************************************************************************)
Values == {-One, 0, One \div 2, One - 1, One, 2 * One}

CodecRanges == {<<0, 3>>, <<0, 255>>, <<-2, 1>>}

CodecKinds ==
    {[tag |-> "Toggle", lo |-> 0, hi |-> 0]}
    \cup {[tag |-> t, lo |-> lg[1], hi |-> lg[2]] :
            t \in {"Signed", "Unsigned"}, lg \in CodecRanges}

Control(kind, start, end, real_value) ==
    [kind |-> kind, real_value |-> real_value, bits |-> Bits(start, end),
     name |-> <<"Unk">>]

\* A control, alone or followed by a one-bit Toggle, in a report that ends
\* with its last control or one byte later.
CodecReports ==
    {[id |-> id, size_in_bits |-> s + w + Len(follow) + slack,
      outputs |-> <<Control(kind, s, s + w, v)>>
                  \o [i \in 1..Len(follow) |->
                        Control([tag |-> "Toggle", lo |-> 0, hi |-> 0],
                                s + w, s + w + 1, follow[i])]] :
        id \in {0, 5}, s \in 0..MaxStart, w \in 1..MaxWidth, kind \in CodecKinds,
        v \in Values, follow \in {<<>>, <<One>>}, slack \in {0, 8}}

CodecInit ==
    /\ open_device = Some(Device(TRUE, TRUE, TRUE, <<>>))
    /\ reports \in {Some(<<r>>) : r \in CodecReports}
    /\ sent = None
    /\ last = <<"reports", "Ok">>

\* write_report(&reports[0]); device.write may fail.
CallWriteReport ==
    /\ last[1] = "reports"
    /\ \E write_ok \in BOOLEAN :
          LET buffer == EncodeReport(reports[1][1])
          IN  IF ~IsOk(buffer)
              THEN last' = <<"write_report", "Panic">> /\ sent' = sent
              ELSE IF write_ok
              THEN last' = <<"write_report", "Ok">> /\ sent' = Some(buffer[2])
              ELSE last' = <<"write_report", "Err">> /\ sent' = sent
    /\ UNCHANGED <<open_device, reports>>

CodecNext == CallWriteReport

CodecSpec == CodecInit /\ [][CodecNext]_vars

(***************************************************************************)
(* Spec: the session of examples/gui.rs.  open_device and reports are the  *)
(* fields of HidLightGui; sent is the last buffer the device accepted;     *)
(* last is the last handler and how its library call ended.  A panic ends  *)
(* the process.                                                            *)
(***************************************************************************)
ToggleDevice ==
    Device(TRUE, TRUE, TRUE,
           <<OutputReport(None, <<VariableField(0, 1, "LED", TRUE, <<0, 1>>, None),
                                  PaddingField(1, 9)>>)>>)

ArrayDevice ==
    Device(TRUE, TRUE, TRUE,
           <<VendorOnlyReport,
             OutputReport(Some(1), <<VariableField(0, 1, "LED", TRUE, <<0, 1>>, Some("Dev")),
                                     ArrayField(1, 5, 2, "std", 2, 2, <<0, 3>>)>>)>>)

Devices ==
    {ToggleDevice, ArrayDevice,
     Device(TRUE, TRUE, TRUE, <<VendorOnlyReport>>),
     Device(FALSE, TRUE, TRUE, <<>>),
     Device(TRUE, FALSE, TRUE, <<>>),
     Device(TRUE, TRUE, FALSE, <<>>),
     Device(TRUE, TRUE, TRUE,
            <<OutputReport(None, <<ArrayField(0, 4, 0, "std", 0, 0, <<0, 3>>)>>)>>)}

\* The values a slider (clamped to 0.0..=1.0) hands back.
SliderValues == {0, One \div 2, One - 1, One}

Running == last[2] # "Panic"

Init ==
    /\ open_device = None
    /\ reports = None
    /\ sent = None
    /\ last = <<"new", "Ok">>

\* The "Select" button: open the device and build its reports; both are kept
\* only when both calls return Ok.
Select ==
    /\ Running
    /\ open_device = None \/ reports = None
    /\ \E dev \in Devices :
          IF ~dev.opens
          THEN last' = <<"select", "Err">> /\ UNCHANGED <<open_device, reports>>
          ELSE LET reps == DeviceHandle_reports(dev)
               IN  IF IsOk(reps)
                   THEN /\ reports' = Some(reps[2])
                        /\ open_device' = Some(dev)
                        /\ last' = <<"select", "Ok">>
                   ELSE /\ last' = <<"select", reps[1]>>
                        /\ UNCHANGED <<open_device, reports>>
    /\ UNCHANGED sent

\* A checkbox or slider of report i changes control j; the changed report is
\* written at once and the result of the write is dropped.
EditControl ==
    /\ Running
    /\ open_device # None /\ reports # None
    /\ \E i \in 1..Len(reports[1]) :
       \E j \in 1..Len(reports[1][i].outputs) :
       \E v \in SliderValues :
       \E write_ok \in BOOLEAN :
          LET out == reports[1][i].outputs[j]
              rep == [reports[1][i] EXCEPT !.outputs[j].real_value = v]
              buffer == EncodeReport(rep)
          IN  /\ out.kind.tag = "Toggle" => v \in {0, One}
              /\ v # out.real_value
              /\ reports' = Some([reports[1] EXCEPT ![i] = rep])
              /\ IF ~IsOk(buffer)
                 THEN last' = <<"edit", "Panic">> /\ sent' = sent
                 ELSE IF write_ok
                 THEN last' = <<"edit", "Ok">> /\ sent' = Some(buffer[2])
                 ELSE last' = <<"edit", "Err">> /\ sent' = sent
    /\ UNCHANGED open_device

\* The "Close" button.
Close ==
    /\ Running
    /\ open_device # None /\ reports # None
    /\ open_device' = None
    /\ reports' = None
    /\ last' = <<"close", "Ok">>
    /\ UNCHANGED sent

Next == Select \/ EditControl \/ Close

Spec == Init /\ [][Next]_vars

(***************************************************************************)
(* Claims about the model builder, checked under BuilderSpec.              *)
(***************************************************************************)
BitsOf(bits) == {k \in bits.start .. (bits.end - 1) : TRUE}

IdOf(rep) == IF rep.report_id = None THEN 0 ELSE rep.report_id[1]

\* reports() has returned Ok on the open handle.
Built == last = <<"reports", "Ok">> /\ reports # None

\* The parsed fields are pairwise disjoint and lie within [0, size_in_bits).
ParsedWellFormed(rep) ==
    /\ \A i \in 1..Len(rep.fields) :
          /\ 0 <= rep.fields[i].bits.start
          /\ rep.fields[i].bits.start <= rep.fields[i].bits.end
          /\ rep.fields[i].bits.end <= rep.size_in_bits
    /\ \A i, j \in 1..Len(rep.fields) :
          i # j => BitsOf(rep.fields[i].bits) \cap BitsOf(rep.fields[j].bits) = {}

\* The parsed report a built report comes from (report ids are distinct
\* within the checked descriptors).
ParsedOf(report) ==
    CHOOSE rep \in {open_device[1].output_reports[i] :
                        i \in 1..Len(open_device[1].output_reports)} :
        IdOf(rep) = report.id

\* C1: for every Report reports() returns, given parsed fields that are
\* pairwise disjoint and within [0, size_in_bits), the bit ranges of its
\* controls (from Variable fields and from Array slots) are pairwise
\* disjoint and each lies within [0, size_in_bits).
C1_NoOverlap ==
    Built =>
        \A r \in 1..Len(reports[1]) :
            LET report == reports[1][r]
                outs   == report.outputs
            IN  ParsedWellFormed(ParsedOf(report)) =>
                  /\ \A i \in 1..Len(outs) :
                        /\ 0 <= outs[i].bits.start
                        /\ outs[i].bits.start <= outs[i].bits.end
                        /\ outs[i].bits.end <= report.size_in_bits
                  /\ \A i, j \in 1..Len(outs) :
                        i # j => BitsOf(outs[i].bits) \cap BitsOf(outs[j].bits) = {}

\* A built report with a control from a Variable field at bits 1..3 followed
\* by the two-bit slots of an Array field.
C1_Witness ==
    /\ Built
    /\ \E r \in 1..Len(reports[1]) :
          LET outs == reports[1][r].outputs
          IN  /\ Len(outs) >= 4
              /\ Len(outs[1].name) = 1
              /\ outs[1].bits = Bits(1, 3)
              /\ outs[2].bits = Bits(3, 5)
              /\ outs[3].bits = Bits(5, 7)

\* The parsed field a control comes from: a Variable field of the same bits,
\* or an Array field the control's positional name and bits belong to.
FieldOf(rep, out) ==
    CHOOSE f \in {rep.fields[i] : i \in 1..Len(rep.fields)} :
        \/ f.type = "Variable" /\ Len(out.name) = 1 /\ f.bits = out.bits
        \/ f.type = "Array" /\ Len(out.name) = 2

HasField(rep, out) ==
    \E f \in {rep.fields[i] : i \in 1..Len(rep.fields)} :
        \/ f.type = "Variable" /\ Len(out.name) = 1 /\ f.bits = out.bits
        \/ f.type = "Array" /\ Len(out.name) = 2

\* C3: every control the builder emits, from a Variable field or an Array
\* slot, is a Toggle exactly when its bit range has length 1, whatever the
\* logical minimum and maximum; otherwise it is Unsigned(logical_minimum ..=
\* logical_maximum) of its field, never Signed.
C3_ToggleIffOneBit ==
    Built =>
        \A r \in 1..Len(reports[1]) :
            LET report == reports[1][r]
                rep    == ParsedOf(report)
            IN  \A i \in 1..Len(report.outputs) :
                    LET out == report.outputs[i]
                    IN  /\ HasField(rep, out)
                        /\ out.kind.tag \in {"Toggle", "Unsigned"}
                        /\ (out.kind.tag = "Toggle") <=> (out.bits.end - out.bits.start = 1)
                        /\ out.kind.tag = "Unsigned" =>
                              /\ out.kind.lo = FieldOf(rep, out).logical_minimum
                              /\ out.kind.hi = FieldOf(rep, out).logical_maximum

\* A one-bit Array slot with logical range -1..=1 built as a Toggle, beside a
\* two-bit Variable field built as Unsigned.
C3_Witness ==
    /\ Built
    /\ \E r \in 1..Len(reports[1]) :
          LET report == reports[1][r]
              rep    == ParsedOf(report)
          IN  \E i, j \in 1..Len(report.outputs) :
                /\ Len(report.outputs[i].name) = 2
                /\ report.outputs[i].kind.tag = "Toggle"
                /\ FieldOf(rep, report.outputs[i]).logical_minimum = -1
                /\ Len(report.outputs[j].name) = 1
                /\ report.outputs[j].kind.tag = "Unsigned"

\* The controls of the built report of parsed report rep (none when the
\* report was dropped).
BuiltControls(rep) ==
    LET hits == {r \in 1..Len(reports[1]) : reports[1][r].id = IdOf(rep)}
    IN  IF hits = {} THEN <<>> ELSE reports[1][CHOOSE r \in hits : TRUE].outputs

\* C4: for an Array field with n usages over bits [start, end) and
\* spanWidth = (end - start) / n, the builder emits exactly one control for
\* every position i in 0..n-1 whose usage is not vendor-usage, with bits
\* [start + i*spanWidth, start + (i+1)*spanWidth), and none for a
\* vendor-usage position, whatever the lengths of the designator list and
\* the string list.
C4_ArraySlots ==
    Built =>
        \A p \in 1..Len(open_device[1].output_reports) :
            LET rep  == open_device[1].output_reports[p]
                outs == BuiltControls(rep)
            IN  \A k \in 1..Len(rep.fields) :
                    LET f == rep.fields[k]
                    IN  (f.type = "Array" /\ Len(f.usage_list) > 0) =>
                        LET n     == Len(f.usage_list)
                            width == (f.bits.end - f.bits.start) \div n
                        IN  \A i \in 0..(n - 1) :
                                LET slot == {o \in 1..Len(outs) :
                                                Len(outs[o].name) = 2 /\ outs[o].name[2] = i}
                                IN  IF f.usage_list[i + 1] \in StandardPages
                                    THEN /\ Cardinality(slot) = 1
                                         /\ \A o \in slot :
                                               outs[o].bits =
                                                   Bits(f.bits.start + i * width,
                                                        f.bits.start + (i + 1) * width)
                                    ELSE slot = {}

\* C5: once the descriptor is read and parsed, reports() has no failure
\* path: it returns Ok with a (possibly empty) list, also for an Array field
\* with no usages or with 10 and more usage positions.
C5_NoFailurePath ==
    (/\ last[1] = "reports"
     /\ open_device[1].descriptor_read
     /\ open_device[1].parse_ok) => (last[2] = "Ok" /\ reports # None)

\* Whether a parsed report has a field that emits a control.
Emits(rep) ==
    \E k \in 1..Len(rep.fields) :
        LET f == rep.fields[k]
        IN  \/ f.type = "Variable" /\ f.variable /\ f.usage \in StandardPages
            \/ /\ f.type = "Array"
               /\ \E i \in 1..Len(f.usage_list) :
                     /\ i <= f.designator_len
                     /\ i <= Len(f.string_list)
                     /\ f.usage_list[i] \in StandardPages

\* C6: every Report reports() returns holds at least one control: an output
\* report whose fields are all padding, vendor-usage (unresolved usages
\* included) or not variable gives no Report, and the output reports with an
\* emitted control all appear, in their order.
C6_EmptyDropped ==
    Built =>
        LET kept == SelectSeq(open_device[1].output_reports, Emits)
        IN  /\ \A r \in 1..Len(reports[1]) : reports[1][r].outputs # <<>>
            /\ Len(reports[1]) = Len(kept)
            /\ \A r \in 1..Len(reports[1]) : reports[1][r].id = IdOf(kept[r])

\* Three output reports of which the vendor-only one and the one in the
\* middle, whose only field has an unresolved usage, are dropped.
C6_Witness ==
    /\ Built
    /\ Len(open_device[1].output_reports) = 3
    /\ open_device[1].output_reports[2].fields[1].type = "Variable"
    /\ open_device[1].output_reports[2].fields[1].usage = "Unresolved"
    /\ Len(reports[1]) = 1
    /\ reports[1][1].id = 9
(***************************************************************************)
(* Claims about the codec, checked under CodecSpec.                        *)
(***************************************************************************)
\* write_report has handed a buffer to the device.
Written == last = <<"write_report", "Ok">> /\ sent # None

\* Bit index of the Msb0 view of a buffer, as 0 or 1.
BitAt(buffer, index) == (buffer[index \div 8 + 1] \div Pow2(7 - (index % 8))) % 2

\* The integer a bit range holds, read most significant bit first.
RECURSIVE ReadRange(_, _, _)
ReadRange(buffer, start, end) ==
    IF start >= end THEN 0
    ELSE 2 * ReadRange(buffer, start, end - 1) + BitAt(buffer, end - 1)

\* The report with the value of control j set to v.
WithValue(report, j, v) == [report EXCEPT !.outputs[j].real_value = v]

ClampedValue(out) ==
    IF out.real_value < 0 THEN 0 ELSE IF out.real_value > One THEN One ELSE out.real_value

\* The controls are of the kinds reports() gives them: a Toggle for one bit,
\* Unsigned otherwise.
AsBuilt(report) ==
    \A j \in 1..Len(report.outputs) :
        LET out == report.outputs[j]
        IN  out.kind.tag = (IF out.bits.end - out.bits.start = 1 THEN "Toggle"
                                                                 ELSE "Unsigned")

\* C2: the buffer encode produces has length ceil(size_in_bits / 8), its
\* byte 0 is the low 8 bits of report.id after all controls are written, and
\* the bits of the later bytes that belong to no control are zero; a single
\* Toggle at bits 0..1 of a report with id 0 and size_in_bits 9, value 1.0,
\* encodes as [0x00, 0x80].
C2_BufferLayout ==
    (Written /\ AsBuilt(reports[1][1])) =>
        LET report == reports[1][1]
            buffer == sent[1]
        IN  /\ Len(buffer) = (report.size_in_bits + 7) \div 8
            /\ buffer[1] = report.id % 256
            /\ \A b \in 8..(8 * Len(buffer) - 1) :
                  (\A j \in 1..Len(report.outputs) : b \notin BitsOf(report.outputs[j].bits))
                      => BitAt(buffer, b) = 0
            /\ (/\ report.id = 0
                /\ report.size_in_bits = 9
                /\ Len(report.outputs) = 1
                /\ report.outputs[1].kind.tag = "Toggle"
                /\ report.outputs[1].bits = Bits(0, 1)
                /\ report.outputs[1].real_value = One) => buffer = <<0, 128>>

\* C8: for every Report and every control kind, encode with a control's
\* value at -1.0 gives the bytes of encode with it at 0.0, and with the
\* value at 2.0 the bytes of encode with it at 1.0, the other values equal.
C8_ClampOnWrite ==
    Written =>
        LET report == reports[1][1]
        IN  \A j \in 1..Len(report.outputs) :
                /\ EncodeReport(WithValue(report, j, -One))
                       = EncodeReport(WithValue(report, j, 0))
                /\ EncodeReport(WithValue(report, j, 2 * One))
                       = EncodeReport(WithValue(report, j, One))
                /\ report.outputs[j].real_value = -One
                       => sent[1] = EncodeReport(WithValue(report, j, 0))[2]
                /\ report.outputs[j].real_value = 2 * One
                       => sent[1] = EncodeReport(WithValue(report, j, One))[2]

\* A Signed control written with value 2.0: the device got the bytes of 1.0,
\* which are not those of 0.0.
C8_Witness ==
    /\ Written
    /\ reports[1][1].outputs[1].kind.tag = "Signed"
    /\ reports[1][1].outputs[1].real_value = 2 * One
    /\ sent[1] = EncodeReport(WithValue(reports[1][1], 1, One))[2]
    /\ sent[1] # EncodeReport(WithValue(reports[1][1], 1, 0))[2]

\* What the bits of control out hold after encode when the integer written
\* is intValue: its low bits, most significant first; for 0 nothing is
\* written and the range is as the fresh buffer has it.
RangeHolds(report, out, intValue) ==
    LET width == out.bits.end - out.bits.start
    IN  ReadRange(sent[1], out.bits.start, out.bits.end)
            = IF intValue # 0 THEN intValue % Pow2(width)
              ELSE ReadRange(NewBuffer(report)[2], out.bits.start, out.bits.end)

\* C9 as stated: for an Unsigned(lo..=hi) control with clamped value v the
\* integer encode writes is lo + round((hi - lo) * v), the scaled value
\* rounded to the nearest integer (stated here for lo >= 0).
C9_Rounds ==
    (Written /\ AsBuilt(reports[1][1])) =>
        \A j \in 1..Len(reports[1][1].outputs) :
            LET out == reports[1][1].outputs[j]
                v   == ClampedValue(out)
            IN  (out.kind.tag = "Unsigned" /\ out.kind.lo >= 0) =>
                    RangeHolds(reports[1][1], out,
                        out.kind.lo
                          + (2 * (out.kind.hi - out.kind.lo) * v + One) \div (2 * One))

\* C9 amended: the integer encode writes is lo + trunc((hi - lo) * v), the
\* scaled value truncated toward zero.
C9_Truncates ==
    Written =>
        \A j \in 1..Len(reports[1][1].outputs) :
            LET out == reports[1][1].outputs[j]
                v   == ClampedValue(out)
            IN  out.kind.tag = "Unsigned" =>
                    RangeHolds(reports[1][1], out,
                        out.kind.lo + ((out.kind.hi - out.kind.lo) * v) \div One)

\* Unsigned(0..=255) over 8 bits written with 0.999: the range holds 254.
C9_Witness ==
    /\ Written
    /\ reports[1][1].outputs[1].kind = [tag |-> "Unsigned", lo |-> 0, hi |-> 255]
    /\ reports[1][1].outputs[1].real_value = One - 1
    /\ reports[1][1].outputs[1].bits = Bits(8, 16)
    /\ ReadRange(sent[1], 8, 16) = 254

\* C10: for an Unsigned control over [s, e) that overlaps no other control
\* and whose intValue fits in e - s bits, after encode the buffer bit
\* e-1-k is bit k of intValue for every k in 0..e-s-1; when intValue is 0 no
\* bit of the range is set and the whole range is 0 (stated here for
\* lo >= 0).
C10_MsbFirst ==
    (Written /\ AsBuilt(reports[1][1])) =>
        \A j \in 1..Len(reports[1][1].outputs) :
            LET report   == reports[1][1]
                out      == report.outputs[j]
                width    == out.bits.end - out.bits.start
                intValue == out.kind.lo
                              + ((out.kind.hi - out.kind.lo) * ClampedValue(out)) \div One
            IN  (/\ out.kind.tag = "Unsigned"
                 /\ out.kind.lo >= 0
                 /\ \A i \in 1..Len(report.outputs) :
                       i # j => BitsOf(report.outputs[i].bits) \cap BitsOf(out.bits) = {}
                 /\ 0 <= intValue
                 /\ intValue < Pow2(width))
                => \A k \in 0..(width - 1) :
                       BitAt(sent[1], out.bits.end - 1 - k) = (intValue \div Pow2(k)) % 2
(***************************************************************************)
(* Claims about the session, checked under Spec.                           *)
(***************************************************************************)
AllZero(reps) ==
    \A i \in 1..Len(reps) :
        \A j \in 1..Len(reps[i].outputs) : reps[i].outputs[j].real_value = 0

\* C7: right after every successful open every control of every built
\* Report has value 0.0, whatever was set or written in an earlier session
\* on the same or another device; and when opening the device or building
\* its reports fails, no Report is available to the session.
C7_FreshSession ==
    /\ last = <<"select", "Ok">> =>
          /\ open_device # None
          /\ reports # None
          /\ AllZero(reports[1])
    /\ (last[1] = "select" /\ last[2] # "Ok") =>
          /\ open_device = None
          /\ reports = None
    /\ reports # None => open_device # None

\* A device just opened, with two reports' worth of controls at 0.0, after
\* an earlier session left the bytes of a set Toggle on a device.
C7_Witness ==
    /\ last = <<"select", "Ok">>
    /\ reports # None
    /\ Len(reports[1]) = 1
    /\ Len(reports[1][1].outputs) = 3
    /\ AllZero(reports[1])
    /\ sent # None
    /\ sent[1] = <<128, 0>>
====
